---- MODULE Spec2Model ----
(***************************************************************************)
(* A model of edfrw (src/src/edfrw): the EDF header objects and their      *)
(* packing (headers.py), the header parser and record reader (reader.py)   *)
(* and the append-only writer (writer.py).                                 *)
(*                                                                         *)
(* Bytes are naturals (ASCII codes); a text or a file is a sequence of     *)
(* bytes.  Python floats that the model uses are all multiples of 0.1 and  *)
(* are kept as an integer number of tenths (1.0 is 10, 0.5 is 5).          *)
(***************************************************************************)
EXTENDS Integers, Sequences, FiniteSets, TLC

VARIABLES
    header,     \* the EdfHeader object the caller and the writer share
    file,       \* the writer's file handle and the bytes behind it
    session,    \* the writing session: how the writer is used, what it wrote
    packed,     \* result of the last EdfHeader.pack() the caller made
    parsed,     \* result of the last header_fromfile() the caller made
    last        \* the operation that produced this state, and its outcome

vars == <<header, file, session, packed, parsed, last>>

(***************************************************************************)
(* Bounds of the model.                                                    *)
(***************************************************************************)
\* Records appended one by one in a session.
MaxRecords == 2
\* Records appended by one run of zero-length writes (WriteManyEmpty).
ManyRecords == 99999998
\* Operations on a header object in the header specification.
MaxHeaderOps == 3

(***************************************************************************)
(* Text.                                                                   *)
(***************************************************************************)
SP == 32
DOT == 46
MINUS == 45
ZERO == 48
LetterX == 88
UNDERSCORE == 95

\* ' ' * n
Spaces(n) == [i \in 1..n |-> SP]

RECURSIVE Dec(_)
\* str(n) for a natural n
Dec(n) == IF n < 10 THEN <<ZERO + n>> ELSE Dec(n \div 10) \o <<ZERO + (n % 10)>>

\* str(n) for an int
IntStr(n) == IF n < 0 THEN <<MINUS>> \o Dec(-n) ELSE Dec(n)

\* str(x) for a float x that is t tenths (repr gives one fractional digit)
FloatStr(t) ==
    LET a == IF t < 0 THEN -t ELSE t
    IN  (IF t < 0 THEN <<MINUS>> ELSE <<>>) \o Dec(a \div 10) \o <<DOT>> \o Dec(a % 10)

\* '{:02}'.format(n)
Dec2(n) == IF n < 10 THEN <<ZERO>> \o Dec(n) ELSE Dec(n)

\* '{:<w}'.format(t): pads on the right up to w, never cuts
LJust(t, w) == t \o Spaces(w - Len(t))

\* n times the byte b
Repeat(b, n) == [i \in 1..n |-> b]

\* str.lstrip(): from the first byte that is not a space on
LStrip(t) ==
    LET kept == {i \in 1..Len(t) : t[i] # SP}
    IN  IF kept = {} THEN <<>>
        ELSE SubSeq(t, CHOOSE i \in kept : \A j \in kept : i <= j, Len(t))

\* str.rstrip(): up to the last byte that is not a space
RStrip(t) ==
    LET kept == {i \in 1..Len(t) : t[i] # SP}
    IN  IF kept = {} THEN <<>>
        ELSE SubSeq(t, 1, CHOOSE i \in kept : \A j \in kept : i >= j)

\* str.strip()
Strip(t) == RStrip(LStrip(t))

\* str.replace(' ', '_')
Underscored(t) == [i \in 1..Len(t) |-> IF t[i] = SP THEN UNDERSCORE ELSE t[i]]

\* bytes[a:b] of Python, 0-based, cut at the end of the sequence
Slice(s, a, b) ==
    LET hi == IF b < Len(s) THEN b ELSE Len(s)
    IN  IF a >= hi THEN <<>> ELSE SubSeq(s, a + 1, hi)

RECURSIVE Concat(_)
\* ''.join(parts)
Concat(parts) == IF parts = <<>> THEN <<>> ELSE Head(parts) \o Concat(Tail(parts))

RECURSIVE Sum(_)
Sum(s) == IF s = <<>> THEN 0 ELSE Head(s) + Sum(Tail(s))

(***************************************************************************)
(* Dates and times (datetime.date, datetime.time) and their EDF formats.   *)
(***************************************************************************)
\* the date that stands for an unknown date of birth ('X')
NoDate == [year |-> 0, month |-> 0, day |-> 0]

\* '%b' in the C locale
MonthAbbr(m) ==
    CASE m = 1 -> <<74, 97, 110>>    [] m = 2 -> <<70, 101, 98>>
      [] m = 3 -> <<77, 97, 114>>    [] m = 4 -> <<65, 112, 114>>
      [] m = 5 -> <<77, 97, 121>>    [] m = 6 -> <<74, 117, 110>>
      [] m = 7 -> <<74, 117, 108>>   [] m = 8 -> <<65, 117, 103>>
      [] m = 9 -> <<83, 101, 112>>   [] m = 10 -> <<79, 99, 116>>
      [] m = 11 -> <<78, 111, 118>>  [] OTHER -> <<68, 101, 99>>

\* strftime(EDF_HDR_DATE_FMT), '%d.%m.%y'
HdrDateStr(d) == Dec2(d.day) \o <<DOT>> \o Dec2(d.month) \o <<DOT>> \o Dec2(d.year % 100)

\* '{:02}.{:02}.{:02}'.format(hour, minute, second)
HdrTimeStr(t) == Dec2(t.hour) \o <<DOT>> \o Dec2(t.minute) \o <<DOT>> \o Dec2(t.second)

\* strftime(EDF_DOB_FMT) = strftime(EDF_RECDATE_FMT), '%d-%b-%Y'
RecDateStr(d) == Dec2(d.day) \o <<MINUS>> \o MonthAbbr(d.month) \o <<MINUS>> \o Dec(d.year)

(***************************************************************************)
(* EdfSubjectId and EdfRecordingId.                                        *)
(***************************************************************************)
\* Identity setters that leave the spaces inside the text.
IdTextKeepingSpaces(t) == LET s == Strip(t) IN IF s = <<>> THEN <<LetterX>> ELSE s

\* The identity setters: strip, 'X' when blank, spaces to underscores.
IdText(t) == LET s == Strip(t) IN Underscored(IF s = <<>> THEN <<LetterX>> ELSE s)

EdfSubjectId(code, sex, dob, name) ==
    [code |-> IdText(code), sex |-> sex, dob |-> dob, name |-> IdText(name)]

EdfRecordingId(startdate, experiment_id, investigator_id, equipment_code) ==
    [startdate |-> startdate, experiment_id |-> IdText(experiment_id),
     investigator_id |-> IdText(investigator_id),
     equipment_code |-> IdText(equipment_code)]

\* EdfSubjectId.to_str, before its length check
SubjectStr(s) ==
    s.code \o <<SP>> \o s.sex \o <<SP>>
      \o (IF s.dob = NoDate THEN <<LetterX>> ELSE RecDateStr(s.dob))
      \o <<SP>> \o s.name

\* 'Startdate'
StartdateWord == <<83, 116, 97, 114, 116, 100, 97, 116, 101>>

\* EdfRecordingId.to_str, before its length check
RecordingStr(r) ==
    StartdateWord \o <<SP>> \o RecDateStr(r.startdate) \o <<SP>> \o r.experiment_id
      \o <<SP>> \o r.investigator_id \o <<SP>> \o r.equipment_code

\* EdfSubjectId._len = EdfRecordingId._len
IdLen == 80

(***************************************************************************)
(* EdfSignal.                                                              *)
(***************************************************************************)
\* EdfSignal._fields, in order
SigFields ==
    <<"label", "transducer_type", "physical_dim", "physical_min", "physical_max",
      "digital_min", "digital_max", "prefiltering",
      "number_of_samples_in_data_record", "reserved">>

\* EdfSignal._sizes
SigSizes == <<16, 80, 8, 8, 8, 8, 8, 80, 8, 32>>

\* The setter of a text field that has a width: cut to the width, then strip.
CutText(t, size) == Strip(IF Len(t) > size THEN SubSeq(t, 1, size) ELSE t)

RECURSIVE Gcd(_, _)
\* greatest common divisor of two naturals
Gcd(a, b) == IF b = 0 THEN a ELSE Gcd(b, a % b)

\* the fraction num/den (den # 0) in lowest terms
Fraction(num, den) ==
    LET g == Gcd(IF num < 0 THEN -num ELSE num, IF den < 0 THEN -den ELSE den)
    IN  [dy |-> num \div g, dx |-> den \div g]

\* _update_gain(): gain = (physical_max - physical_min) / (digital_max -
\* digital_min), kept as the fraction dy/dx (dy in tenths); the division
\* raises ZeroDivisionError when the two digital bounds are equal, and the
\* gain then stays what it was.
UpdateGain(sig) ==
    LET dy == sig.physical_max - sig.physical_min
        dx == sig.digital_max - sig.digital_min
    IN  IF dx = 0 THEN [ok |-> FALSE, sig |-> sig]
        ELSE [ok |-> TRUE, sig |-> [sig EXCEPT !.gain = Fraction(dy, dx)]]

\* The setters of the four bounds: store the value, then _update_gain().
SetPhysicalMin(sig, value) == UpdateGain([sig EXCEPT !.physical_min = value])
SetPhysicalMax(sig, value) == UpdateGain([sig EXCEPT !.physical_max = value])
SetDigitalMin(sig, value) == UpdateGain([sig EXCEPT !.digital_min = value])
SetDigitalMax(sig, value) == UpdateGain([sig EXCEPT !.digital_max = value])

\* the next assignment of a sequence: not reached when an earlier one
\* raised (x.ok is FALSE), else the setter of `field` on the object so far
ThenSet(x, field, value) ==
    IF ~x.ok THEN x ELSE UpdateGain([x.sig EXCEPT ![field] = value])

\* The four bound setters called one after another, as __init__ and
\* header_fromfile call them; the first that raises ends the sequence.
SetBounds(sig, pmin, pmax, dmin, dmax) ==
    ThenSet(ThenSet(ThenSet(SetPhysicalMin(sig, pmin),
                            "physical_max", pmax),
                    "digital_min", dmin),
            "digital_max", dmax)

\* EdfSignal.__init__: the bounds start as 0..1 with gain 1 and are then
\* set through the setters; the result is the object or the failure of a
\* setter.  A sampling frequency is the fraction num/den (in Hz).
NewSignal(label, pmin, pmax, dmin, dmax, sampling_freq) ==
    SetBounds(
        [label |-> CutText(label, SigSizes[1]),
         transducer_type |-> <<>>,
         physical_dim |-> <<>>,
         physical_min |-> 0,
         physical_max |-> 10,
         digital_min |-> 0,
         digital_max |-> 1,
         prefiltering |-> <<>>,
         number_of_samples_in_data_record |-> 0,
         reserved |-> <<>>,
         sampling_freq |-> [num |-> sampling_freq, den |-> 1],
         gain |-> [dy |-> 10, dx |-> 1]],
        pmin, pmax, dmin, dmax)

\* EdfSignal(label=..., sampling_freq=...) with the other arguments defaulted.
EdfSignal(label, sampling_freq) ==
    NewSignal(label, -327680, 327670, -32768, 32767, sampling_freq).sig

\* the reserved setter: strip only, no cut to the field's width
SetSigReserved(sig, t) == [sig EXCEPT !.reserved = Strip(t)]

\* What pack() formats for one field of one signal: str(val).
SigFieldStr(sig, f) ==
    CASE f = 1 -> sig.label
      [] f = 2 -> sig.transducer_type
      [] f = 3 -> sig.physical_dim
      [] f = 4 -> FloatStr(sig.physical_min)
      [] f = 5 -> FloatStr(sig.physical_max)
      [] f = 6 -> IntStr(sig.digital_min)
      [] f = 7 -> IntStr(sig.digital_max)
      [] f = 8 -> sig.prefiltering
      [] f = 9 -> IntStr(sig.number_of_samples_in_data_record)
      [] OTHER -> sig.reserved

(***************************************************************************)
(* EdfHeader.                                                              *)
(***************************************************************************)
\* EdfHeader._sizes
HdrSizes == <<8, 80, 80, 8, 8, 8, 44, 8, 8, 4>>

\* The signals setter: the two derived fields follow the new list.
SetSignals(h, values) ==
    [h EXCEPT !.number_of_signals = Len(values),
              !.number_of_bytes_in_header = 256 + (Len(values) * 256),
              !.signals = values]

\* EdfHeader(date_time=..., duration_of_data_record=..., signals=...) with the
\* identity arguments defaulted ('' each).
EdfHeader(date, time, duration, signals) ==
    SetSignals(
        [version |-> <<ZERO>>,
         startdate |-> date,
         starttime |-> time,
         subject_id |-> EdfSubjectId(<<>>, <<LetterX>>, NoDate, <<>>),
         recording_id |-> EdfRecordingId(date, <<>>, <<>>, <<>>),
         reserved |-> <<>>,
         number_of_data_records |-> -1,
         duration_of_data_record |-> duration,
         number_of_bytes_in_header |-> 0,
         number_of_signals |-> 0,
         signals |-> <<>>],
        signals)

\* The ten texts pack() formats into the main header.
MainFieldStr(h, f) ==
    CASE f = 1 -> h.version
      [] f = 2 -> SubjectStr(h.subject_id)
      [] f = 3 -> RecordingStr(h.recording_id)
      [] f = 4 -> HdrDateStr(h.startdate)
      [] f = 5 -> HdrTimeStr(h.starttime)
      [] f = 6 -> IntStr(h.number_of_bytes_in_header)
      [] f = 7 -> h.reserved
      [] f = 8 -> IntStr(h.number_of_data_records)
      [] f = 9 -> FloatStr(h.duration_of_data_record)
      [] OTHER -> IntStr(h.number_of_signals)

\* main_hdr of pack(): the ten fields, each padded to its size
MainHdr(h) == Concat([f \in 1..10 |-> LJust(MainFieldStr(h, f), HdrSizes[f])])

\* One field of the signal block: that field of every signal, in list order.
SigFieldBlock(h, f) ==
    Concat([i \in 1..Len(h.signals) |-> LJust(SigFieldStr(h.signals[i], f), SigSizes[f])])

\* sig_hdr of pack(): field after field, and within a field signal after signal
SigHdr(h) == Concat([f \in 1..10 |-> SigFieldBlock(h, f)])

\* EdfHeader.pack(): the bytes, or a failure: an identity string over 80
\* bytes (EdfHeaderException) or one of the two length assertions.
Pack(h) ==
    IF \/ Len(SubjectStr(h.subject_id)) > IdLen
       \/ Len(RecordingStr(h.recording_id)) > IdLen
       \/ Len(MainHdr(h)) # 256
       \/ Len(SigHdr(h)) # h.number_of_signals * 256
    THEN [ok |-> FALSE, bytes |-> <<>>]
    ELSE [ok |-> TRUE, bytes |-> MainHdr(h) \o SigHdr(h)]


(***************************************************************************)
(* Parsing texts: int(), float(), str.split() and the strptime formats.    *)
(***************************************************************************)
IsDigit(b) == b >= ZERO /\ b <= ZERO + 9

AllDigits(t) == t # <<>> /\ \A i \in 1..Len(t) : IsDigit(t[i])

RECURSIVE DigitsVal(_)
DigitsVal(t) == IF t = <<>> THEN 0 ELSE DigitsVal(SubSeq(t, 1, Len(t) - 1)) * 10 + (t[Len(t)] - ZERO)

\* int(text): surrounding blanks allowed, an optional sign, then digits only
ParseInt(text) ==
    LET Digits(neg, d) ==
            IF AllDigits(d)
            THEN [ok |-> TRUE, val |-> IF neg THEN -DigitsVal(d) ELSE DigitsVal(d)]
            ELSE [ok |-> FALSE, val |-> 0]
        Negative(s) == s # <<>> /\ Head(s) = MINUS
        Signed(s) == Digits(Negative(s), IF Negative(s) THEN Tail(s) ELSE s)
    IN  Signed(Strip(text))

\* index of the first '.' of t, or 0
DotAt(t) == IF \E i \in 1..Len(t) : t[i] = DOT
            THEN CHOOSE i \in 1..Len(t) : t[i] = DOT /\ \A j \in 1..(i - 1) : t[j] # DOT
            ELSE 0

\* float(text), in tenths: digits, then optionally '.' and one digit (all the
\* floats of the model are written that way by str())
ParseFloat(text) ==
    LET Tenths(neg, v) == IF neg THEN -v ELSE v
        Value(neg, ip, fp) ==
            IF AllDigits(ip) /\ Len(fp) = 1 /\ AllDigits(fp)
            THEN [ok |-> TRUE, val |-> Tenths(neg, DigitsVal(ip) * 10 + DigitsVal(fp))]
            ELSE [ok |-> FALSE, val |-> 0]
        Parts(neg, d, k) ==
            Value(neg,
                  IF k = 0 THEN d ELSE SubSeq(d, 1, k - 1),
                  IF k = 0 THEN <<ZERO>> ELSE SubSeq(d, k + 1, Len(d)))
        Negative(s) == s # <<>> /\ Head(s) = MINUS
        Unsigned(neg, d) == Parts(neg, d, DotAt(d))
        Signed(s) == Unsigned(Negative(s), IF Negative(s) THEN Tail(s) ELSE s)
    IN  Signed(Strip(text))

RECURSIVE FirstToken(_)
\* the leading run of non-blank bytes of t
FirstToken(t) == IF t = <<>> \/ Head(t) = SP THEN <<>> ELSE <<Head(t)>> \o FirstToken(Tail(t))

RECURSIVE Split(_)
\* str.split(): the non-blank runs of t
Split(t) ==
    LET s == LStrip(t)
        w == FirstToken(s)
    IN  IF s = <<>> THEN <<>> ELSE <<w>> \o Split(SubSeq(s, Len(w) + 1, Len(s)))

\* strptime(text, '%d.%m.%y'): two-digit years 69..99 are 19yy, 0..68 are 20yy
ParseHdrDate(text) ==
    LET dd == SubSeq(text, 1, 2)
        mm == SubSeq(text, 4, 5)
        yy == SubSeq(text, 7, 8)
        y == DigitsVal(yy)
    IN  IF /\ Len(text) = 8 /\ text[3] = DOT /\ text[6] = DOT
           /\ AllDigits(dd) /\ AllDigits(mm) /\ AllDigits(yy)
           /\ DigitsVal(dd) \in 1..31 /\ DigitsVal(mm) \in 1..12
        THEN [ok |-> TRUE,
              val |-> [year |-> IF y >= 69 THEN 1900 + y ELSE 2000 + y,
                       month |-> DigitsVal(mm), day |-> DigitsVal(dd)]]
        ELSE [ok |-> FALSE, val |-> NoDate]

\* strptime(text, '%H<sep>%M<sep>%S')
ParseTime(text, sep) ==
    LET hh == SubSeq(text, 1, 2)
        mm == SubSeq(text, 4, 5)
        ss == SubSeq(text, 7, 8)
    IN  IF /\ Len(text) = 8 /\ text[3] = sep /\ text[6] = sep
           /\ AllDigits(hh) /\ AllDigits(mm) /\ AllDigits(ss)
           /\ DigitsVal(hh) \in 0..23 /\ DigitsVal(mm) \in 0..59
           /\ DigitsVal(ss) \in 0..61
        THEN [ok |-> TRUE, val |-> [hour |-> DigitsVal(hh), minute |-> DigitsVal(mm),
                                    second |-> DigitsVal(ss)]]
        ELSE [ok |-> FALSE, val |-> [hour |-> 0, minute |-> 0, second |-> 0]]

COLON == 58

\* The starttime setter of the header given a string: '%H:%M:%S', then
\* '%H.%M.%S'.
ParseStarttime(text) ==
    IF ParseTime(text, COLON).ok THEN ParseTime(text, COLON) ELSE ParseTime(text, DOT)

\* strptime(text, '%d-%b-%Y'); 'X' (or '') is the unknown date of birth
ParseRecDate(text) ==
    LET dd == SubSeq(text, 1, 2)
        mon == SubSeq(text, 4, 6)
        yyyy == SubSeq(text, 8, 11)
    IN  IF /\ Len(text) = 11 /\ text[3] = MINUS /\ text[7] = MINUS
           /\ AllDigits(dd) /\ AllDigits(yyyy) /\ DigitsVal(dd) \in 1..31
           /\ \E m \in 1..12 : MonthAbbr(m) = mon
        THEN [ok |-> TRUE,
              val |-> [year |-> DigitsVal(yyyy),
                       month |-> CHOOSE m \in 1..12 : MonthAbbr(m) = mon,
                       day |-> DigitsVal(dd)]]
        ELSE [ok |-> FALSE, val |-> NoDate]


\* strptime(text, '%Y-%m-%d')
ParseIsoDate(text) ==
    LET yyyy == SubSeq(text, 1, 4)
        mm == SubSeq(text, 6, 7)
        dd == SubSeq(text, 9, 10)
    IN  IF /\ Len(text) = 10 /\ text[5] = MINUS /\ text[8] = MINUS
           /\ AllDigits(yyyy) /\ AllDigits(mm) /\ AllDigits(dd)
           /\ DigitsVal(dd) \in 1..31 /\ DigitsVal(mm) \in 1..12
        THEN [ok |-> TRUE, val |-> [year |-> DigitsVal(yyyy), month |-> DigitsVal(mm),
                                    day |-> DigitsVal(dd)]]
        ELSE [ok |-> FALSE, val |-> NoDate]

\* The date setters of the two identities given a string: ISO first, then
\* '%d-%b-%Y'.
ParseIdDate(text) == IF ParseIsoDate(text).ok THEN ParseIsoDate(text) ELSE ParseRecDate(text)

\* The sexes EdfSubjectId accepts: 'M', 'F', 'X'
Sexes == {<<77>>, <<70>>, <<LetterX>>}

\* The sex setter of EdfSubjectId: strip, 'X' when blank, and ValueError,
\* before anything is stored, for a text that is not 'M', 'F' or 'X'.
SetSex(subject, sex) ==
    LET s == Strip(sex)
        v == IF s = <<>> THEN <<LetterX>> ELSE s
    IN  IF v \in Sexes THEN [ok |-> TRUE, val |-> [subject EXCEPT !.sex = v]]
        ELSE [ok |-> FALSE, val |-> subject]

(***************************************************************************)
(* header_fromfile (reader.py).                                            *)
(***************************************************************************)
RECURSIVE SizesBefore(_, _)
\* the sum of the first f - 1 sizes
SizesBefore(sizes, f) == IF f <= 1 THEN 0 ELSE SizesBefore(sizes, f - 1) + sizes[f - 1]

\* struct.unpack(hdr_fmt, hdr_str)[f - 1]: field f of the main header
MainField(main, f) ==
    Slice(main, SizesBefore(HdrSizes, f), SizesBefore(HdrSizes, f) + HdrSizes[f])

\* np.array(EdfSignal._sizes).repeat(ns): each size ns times in a row
SigSizesRepeated(ns) == [k \in 1..(10 * ns) |-> SigSizes[((k - 1) \div ns) + 1]]

\* struct.unpack of a format of byte strings of the sizes given: the items
\* lie one after another in the buffer
Unpack(sizes, buffer) ==
    [k \in 1..Len(sizes) |->
        Slice(buffer, Sum(SubSeq(sizes, 1, k - 1)), Sum(SubSeq(sizes, 1, k)))]

\* sig_str[n::ns][f - 1] for signal n (from 0) of ns: every ns-th item of the
\* unpacked tuple from item n on, and of these the item of field f
SigField(sig_str, ns, n, f) == Unpack(SigSizesRepeated(ns), sig_str)[n + (f - 1) * ns + 1]

\* The subject_id setter given a string: four blank-separated items.
ParseSubjectId(text) ==
    LET t == Split(text)
        good == /\ Len(t) = 4
                /\ t[2] \in Sexes
                /\ (t[3] = <<LetterX>> \/ ParseIdDate(t[3]).ok)
    IN  IF good
        THEN [ok |-> TRUE,
              val |-> EdfSubjectId(t[1], t[2],
                                   IF t[3] = <<LetterX>> THEN NoDate ELSE ParseIdDate(t[3]).val,
                                   t[4])]
        ELSE [ok |-> FALSE, val |-> EdfSubjectId(<<>>, <<LetterX>>, NoDate, <<>>)]

\* The recording_id setter given a string: five blank-separated items, the
\* first of them dropped.
ParseRecordingId(text) ==
    LET t == Split(text)
        good == Len(t) = 5 /\ ParseIdDate(t[2]).ok
    IN  IF good
        THEN [ok |-> TRUE, val |-> EdfRecordingId(ParseIdDate(t[2]).val, t[3], t[4], t[5])]
        ELSE [ok |-> FALSE, val |-> EdfRecordingId(NoDate, <<>>, <<>>, <<>>)]

\* The startdate setter of the header given a string: ISO, then '%d.%m.%y'.
ParseStartdate(text) == IF ParseIsoDate(text).ok THEN ParseIsoDate(text) ELSE ParseHdrDate(text)

\* The ten setattr calls on a fresh EdfSignal for signal n, then its
\* sampling_freq = number_of_samples_in_data_record / duration_of_data_record
\* (a division by 0.0 raises).
SignalFromFields(fld, duration) ==
    LET pmin == ParseFloat(fld[4])
        pmax == ParseFloat(fld[5])
        dmin == ParseInt(fld[6])
        dmax == ParseInt(fld[7])
        nsam == ParseInt(fld[9])
        set == SetBounds(EdfSignal(<<>>, 0), pmin.val, pmax.val, dmin.val, dmax.val)
    IN  [ok |-> /\ pmin.ok /\ pmax.ok /\ dmin.ok /\ dmax.ok /\ nsam.ok
                /\ set.ok /\ duration # 0,
         val |-> [set.sig EXCEPT
                  !.label = CutText(fld[1], SigSizes[1]),
                  !.transducer_type = CutText(fld[2], SigSizes[2]),
                  !.physical_dim = CutText(fld[3], SigSizes[3]),
                  !.prefiltering = CutText(fld[8], SigSizes[8]),
                  !.number_of_samples_in_data_record = nsam.val,
                  !.reserved = Strip(fld[10]),
                  !.sampling_freq = [num |-> nsam.val * 10, den |-> duration]]]

\* The loop body of header_fromfile for signal n (from 0).
ParseSignal(sig_str, ns, n, duration) ==
    LET items == Unpack(SigSizesRepeated(ns), sig_str)
    IN  SignalFromFields([f \in 1..10 |-> items[n + (f - 1) * ns + 1]], duration)

\* header_fromfile(filename) on a file that holds `bytes`: the header, or a
\* failure (a short read makes struct.unpack raise, a field's setter raises).
HeaderFromFile(bytes) ==
    LET main == Slice(bytes, 0, 256)
        fld(f) == MainField(main, f)
        subj == ParseSubjectId(fld(2))
        rec == ParseRecordingId(fld(3))
        sdate == ParseStartdate(fld(4))
        stime == ParseStarttime(fld(5))
        nbh == ParseInt(fld(6))
        ndr == ParseInt(fld(8))
        dur == ParseFloat(fld(9))
        nsig == ParseInt(fld(10))
        ns == nsig.val
        sig_str == Slice(bytes, 256, 256 + 256 * ns)
        mainOk == /\ Len(main) = 256
                  /\ subj.ok /\ rec.ok /\ sdate.ok /\ stime.ok
                  /\ nbh.ok /\ ndr.ok /\ dur.ok /\ nsig.ok
        sigs == [n \in 1..ns |-> ParseSignal(sig_str, ns, n - 1, dur.val)]
        h0 == EdfHeader(NoDate, [hour |-> 0, minute |-> 0, second |-> 0], 0, <<>>)
        allOk == /\ mainOk
                 /\ ns >= 0
                 /\ Len(sig_str) = 256 * ns
                 /\ \A n \in 1..ns : sigs[n].ok
    IN  IF allOk
        THEN [ok |-> TRUE,
              header |-> SetSignals(
                  [version |-> fld(1),
                   startdate |-> sdate.val,
                   starttime |-> stime.val,
                   subject_id |-> subj.val,
                   recording_id |-> rec.val,
                   reserved |-> fld(7),
                   number_of_data_records |-> ndr.val,
                   duration_of_data_record |-> dur.val,
                   number_of_bytes_in_header |-> nbh.val,
                   number_of_signals |-> ns,
                   signals |-> <<>>],
                  [n \in 1..ns |-> sigs[n].val])]
        ELSE [ok |-> FALSE, header |-> h0]


(***************************************************************************)
(* The file behind the writer: open(filename, 'wb').  Written bytes wait   *)
(* in the handle's buffer (the model's files are smaller than the buffer)  *)
(* until a seek, a flush or a close hands them to the operating system;    *)
(* `disk` is what another process, or a reader after a kill, finds.        *)
(***************************************************************************)
\* `d` with `b` laid over it from offset `at` on (a gap is zero-filled)
Overlay(d, at, b) ==
    LET n == IF Len(d) > at + Len(b) THEN Len(d) ELSE at + Len(b)
    IN  IF b = <<>> THEN d
        ELSE [i \in 1..n |->
                IF i > at /\ i <= at + Len(b) THEN b[i - at]
                ELSE IF i <= Len(d) THEN d[i] ELSE 0]

\* open(filename, 'wb'): the file is created, or cut to nothing
FOpen == [disk |-> <<>>, buf |-> <<>>, at |-> 0, pos |-> 0, st |-> "open"]

\* no file yet
NoFile == [disk |-> <<>>, buf |-> <<>>, at |-> 0, pos |-> 0, st |-> "none"]

\* f.write(b)
FWrite(f, b) ==
    [f EXCEPT !.at = IF f.buf = <<>> THEN f.pos ELSE f.at,
              !.buf = f.buf \o b,
              !.pos = f.pos + Len(b)]

\* f.flush()
FFlush(f) == [f EXCEPT !.disk = Overlay(f.disk, f.at, f.buf), !.buf = <<>>, !.at = 0]

\* f.seek(p): a seek of a write handle flushes first
FSeek(f, p) == [FFlush(f) EXCEPT !.pos = p]

\* f.close()
FClose(f) == [FFlush(f) EXCEPT !.st = "closed"]

\* The bytes of the file as the handle has written them (flushed or not).
Content(f) == Overlay(f.disk, f.at, f.buf)

(***************************************************************************)
(* EdfWriter (writer.py).  Each operation maps the header and the file to  *)
(* the new header and file, and says whether it returned (ok) or raised.   *)
(***************************************************************************)
\* EdfWriter._nr_size
NrSize == 8
\* EdfWriter._nr_pos
NrPos == 236

\* A constructor that rounds the samples per record up instead of cutting.
SamplesForCeil(sig, period) ==
    LET p == sig.sampling_freq.num * period
        q == sig.sampling_freq.den * 10
    IN  (p + q - 1) \div q

\* int(signal.sampling_freq * saving_period_s), the period in tenths
SamplesFor(sig, period) ==
    LET p == sig.sampling_freq.num * period
        q == sig.sampling_freq.den * 10
    IN  IF p >= 0 THEN p \div q ELSE -((-p) \div q)

\* A write_header() that leaves the cursor at the end of the header.
WriteHeaderNoSeekBack(h, f) ==
    LET hdr == Pack(h)
    IN  IF f.st # "open" \/ ~hdr.ok THEN [ok |-> FALSE, h |-> h, f |-> f]
        ELSE [ok |-> TRUE, h |-> h, f |-> FWrite(FSeek(f, 0), hdr.bytes)]

\* write_header(): pack, remember the cursor, write at 0, and go back to the
\* cursor only if it was beyond the header
WriteHeader(h, f) ==
    LET hdr == Pack(h)
        pointer == f.pos
        f1 == FWrite(FSeek(f, 0), hdr.bytes)
    IN  IF f.st # "open" \/ ~hdr.ok THEN [ok |-> FALSE, h |-> h, f |-> f]
        ELSE [ok |-> TRUE, h |-> h,
              f |-> IF pointer > h.number_of_bytes_in_header THEN FSeek(f1, pointer) ELSE f1]

\* An update_number_of_records() that forgets to seek back to the cursor.
UpdateNumberOfRecordsNoSeekBack(h, f) ==
    LET nr == LJust(IntStr(h.number_of_data_records), NrSize)
    IN  IF f.st # "open" THEN [ok |-> FALSE, h |-> h, f |-> f]
        ELSE [ok |-> TRUE, h |-> h, f |-> FFlush(FWrite(FSeek(f, NrPos), nr))]

\* update_number_of_records(): the counter's text at _nr_pos, cursor restored
UpdateNumberOfRecords(h, f) ==
    LET current_pointer == f.pos
        nr == LJust(IntStr(h.number_of_data_records), NrSize)
    IN  IF f.st # "open" THEN [ok |-> FALSE, h |-> h, f |-> f]
        ELSE [ok |-> TRUE, h |-> h,
              f |-> FSeek(FWrite(FSeek(f, NrPos), nr), current_pointer)]

\* A write_data_record that counts the record before it writes it.
WriteDataRecordCountFirst(h, f, buffer) ==
    LET h1 == [h EXCEPT !.number_of_data_records = @ + 1]
    IN  IF f.st # "open" THEN [ok |-> FALSE, h |-> h1, f |-> f]
        ELSE UpdateNumberOfRecords(h1, FWrite(f, buffer))

\* write_data_record(buffer)
WriteDataRecord(h, f, buffer) ==
    LET h1 == [h EXCEPT !.number_of_data_records = @ + 1]
    IN  IF f.st # "open" THEN [ok |-> FALSE, h |-> h, f |-> f]
        ELSE UpdateNumberOfRecords(h1, FWrite(f, buffer))

\* A close() that rewrites the whole header first, as the writer of the
\* older version of the package did.
CloseWriterRewriting(h, f) ==
    LET w == WriteHeader(h, f)
    IN  IF ~w.ok THEN w ELSE [ok |-> TRUE, h |-> h, f |-> FClose(FFlush(w.f))]

\* close(): the counter once more, flush, close
CloseWriter(h, f) ==
    LET u == UpdateNumberOfRecords(h, f)
    IN  IF ~u.ok THEN u ELSE [ok |-> TRUE, h |-> h, f |-> FClose(FFlush(u.f))]

\* EdfWriter(filename, header, saving_period_s)
OpenWriter(h, period) ==
    LET h1 == [h EXCEPT !.duration_of_data_record = period,
                        !.number_of_data_records = 0,
                        !.signals = [i \in 1..Len(h.signals) |->
                            [h.signals[i] EXCEPT !.number_of_samples_in_data_record =
                                SamplesFor(h.signals[i], period)]]]
    IN  WriteHeader(h1, FOpen)


(***************************************************************************)
(* EdfReader (reader.py): the record layout and read_record, on the bytes  *)
(* the reader finds in the file.                                           *)
(***************************************************************************)
\* _record_bytes: two bytes a sample
RecordBytes(h) == [i \in 1..Len(h.signals) |-> h.signals[i].number_of_samples_in_data_record * 2]

\* _bytes_in_record
BytesInRecord(h) == Sum(RecordBytes(h))

\* read_record(rec_number) of a reader whose parsed header is h
ReadRecord(bytes, h, rec_number) ==
    LET pointer == h.number_of_bytes_in_header + (BytesInRecord(h) * rec_number)
    IN  IF rec_number >= h.number_of_data_records \/ pointer < 0
        THEN [ok |-> FALSE, samples |-> <<>>]
        ELSE [ok |-> TRUE, samples |-> Slice(bytes, pointer, pointer + BytesInRecord(h))]

\* _record_pointers: where each signal's samples start within a record
RecordPointers(h) == [i \in 1..Len(h.signals) |-> Sum(SubSeq(RecordBytes(h), 1, i - 1))]

\* duration_s
DurationS(h) == h.number_of_data_records * h.duration_of_data_record

\* np.int16 of a 16-bit value: two's complement
Int16(u) == ((u + 32768) % 65536) - 32768

\* np.frombuffer(data, 'int16'): little-endian pairs of bytes
FromBuffer(data) == [k \in 1..(Len(data) \div 2) |-> Int16(data[2 * k - 1] + 256 * data[2 * k])]

\* dig_to_phys(value) = gain * (int16(value) + physical_max / gain -
\* digital_max), as the fraction num/den of tenths; a gain of 0 makes the
\* division raise.
DigToPhys(sig, value) ==
    [ok |-> sig.gain.dy # 0,
     val |-> [num |-> sig.gain.dy * (Int16(value) - sig.digital_max)
                        + sig.physical_max * sig.gain.dx,
              den |-> sig.gain.dx]]

\* the integer part of num/den (den # 0), as a C cast of a double takes it
Truncated(num, den) ==
    LET n == IF den < 0 THEN -num ELSE num
        d == IF den < 0 THEN -den ELSE den
    IN  IF n >= 0 THEN n \div d ELSE -((-n) \div d)

\* np.uint16(x) of a float whose integer part is t: t itself inside
\* 0..65535.  The cast of a negative float is not defined by C: builds that
\* convert through a signed integer wrap it modulo 2^16, builds that convert
\* with a saturating instruction give 0.  `wraps` says which build this is.
Uint16(t, wraps) == IF t < 0 /\ ~wraps THEN 0 ELSE t % 65536

\* phys_to_dig(value) = uint16((value - physical_max) / gain + digital_max),
\* value in tenths; a gain of 0 makes the division raise.
PhysToDig(sig, value, wraps) ==
    [ok |-> sig.gain.dy # 0,
     val |-> IF sig.gain.dy = 0 THEN 0
             ELSE Uint16(Truncated((value - sig.physical_max) * sig.gain.dx
                                      + sig.digital_max * sig.gain.dy,
                                   sig.gain.dy), wraps)]

\* the handle of a reader on a file that holds `bytes`: EdfReader._open()
ROpen(bytes) == [disk |-> bytes, buf |-> <<>>, at |-> 0, pos |-> 0, st |-> "open"]

\* f.read(n) at the cursor
FRead(f, n) ==
    LET data == Slice(f.disk, f.pos, f.pos + n)
    IN  [f |-> [f EXCEPT !.pos = f.pos + Len(data)], data |-> data]

\* A call that raised before or at its first seek: nothing sought or read.
Raised(f) ==
    [ok |-> FALSE, f |-> f, seeks |-> <<>>, reads |-> <<>>, data |-> <<>>,
     time |-> <<>>, samples |-> <<>>]

\* A read_record without the check of the record number.
ReaderReadRecordUnchecked(f, h, rec_number) ==
    LET pointer == h.number_of_bytes_in_header + (BytesInRecord(h) * rec_number)
        got == FRead([f EXCEPT !.pos = pointer], BytesInRecord(h))
    IN  IF f.st # "open" \/ pointer < 0 THEN Raised(f)
        ELSE [ok |-> TRUE, f |-> got.f, seeks |-> <<pointer>>,
              reads |-> <<BytesInRecord(h)>>, data |-> got.data,
              time |-> <<>>, samples |-> <<>>]

\* EdfReader.read_record(rec_number) on the handle f: the check of the
\* record number, seek, read.  seek raises on a closed handle and on a
\* negative position.
ReaderReadRecord(f, h, rec_number) ==
    LET pointer == h.number_of_bytes_in_header + (BytesInRecord(h) * rec_number)
        got == FRead([f EXCEPT !.pos = pointer], BytesInRecord(h))
    IN  IF rec_number >= h.number_of_data_records THEN Raised(f)
        ELSE IF f.st # "open" \/ pointer < 0 THEN Raised(f)
        ELSE [ok |-> TRUE, f |-> got.f, seeks |-> <<pointer>>,
              reads |-> <<BytesInRecord(h)>>, data |-> got.data,
              time |-> <<>>, samples |-> <<>>]

\* EdfReader.read_signal_from_record(sig_number, rec_number): the three
\* checks, seek, read, int16 samples to physical values, and the time of
\* each sample (tenths of a second, as fractions).
ReadSignalFromRecord(f, h, sig_number, rec_number) ==
    IF sig_number >= h.number_of_signals THEN Raised(f)
    ELSE IF sig_number < 0 THEN Raised(f)
    ELSE IF rec_number >= h.number_of_data_records THEN Raised(f)
    ELSE
        LET sig == h.signals[sig_number + 1]
            pointer == h.number_of_bytes_in_header
                         + (BytesInRecord(h) * rec_number)
                         + RecordPointers(h)[sig_number + 1]
            nbytes == RecordBytes(h)[sig_number + 1]
            got == FRead([f EXCEPT !.pos = pointer], nbytes)
            raw == FromBuffer(got.data)
            time0 == h.duration_of_data_record * rec_number
            fs == sig.sampling_freq
        IN  IF f.st # "open" \/ pointer < 0 THEN Raised(f)
            ELSE [ok |-> /\ Len(got.data) % 2 = 0
                         /\ \A k \in 1..Len(raw) : DigToPhys(sig, raw[k]).ok,
                  f |-> got.f, seeks |-> <<pointer>>, reads |-> <<nbytes>>,
                  data |-> got.data,
                  time |-> [j \in 1..sig.number_of_samples_in_data_record |->
                              [num |-> 10 * (j - 1) * fs.den + time0 * fs.num,
                               den |-> fs.num]],
                  samples |-> [k \in 1..Len(raw) |-> DigToPhys(sig, raw[k]).val]]

RECURSIVE ReadRange(_, _, _, _, _)
\* the loop of read_signal over range(record, rec_to): the results of the
\* calls one after another; a call that raises ends the loop
ReadRange(f, h, sig_number, record, rec_to) ==
    IF record >= rec_to
    THEN [ok |-> TRUE, f |-> f, seeks |-> <<>>, reads |-> <<>>, data |-> <<>>,
          time |-> <<>>, samples |-> <<>>]
    ELSE LET x == ReadSignalFromRecord(f, h, sig_number, record)
             rest == ReadRange(x.f, h, sig_number, record + 1, rec_to)
         IN  IF ~x.ok THEN x
             ELSE [ok |-> rest.ok, f |-> rest.f,
                   seeks |-> x.seeks \o rest.seeks, reads |-> x.reads \o rest.reads,
                   data |-> x.data \o rest.data,
                   time |-> x.time \o rest.time, samples |-> x.samples \o rest.samples]

\* time >= from_second and time < to_second for a time that is a fraction
IsSample(t, from_second, to_second) ==
    t.num >= from_second * t.den /\ t.num < to_second * t.den

\* the items of seq whose time is a sample time
Keep(seq, time, from_second, to_second) ==
    LET idx == {j \in 1..Len(time) : IsSample(time[j], from_second, to_second)}
        nth(k) == CHOOSE j \in idx : Cardinality({i \in idx : i < j}) = k - 1
    IN  [k \in 1..Cardinality(idx) |-> seq[nth(k)]]

\* EdfReader.read_signal(signal, from_second, to_second) with an integer
\* signal: clamp to_second, floor and ceil for the records, one call or the
\* loop, then the samples inside the time range.  Times are tenths.
ReadSignal(f, h, signal, from_second, to_second) ==
    LET to == IF to_second > DurationS(h) THEN DurationS(h) ELSE to_second
        d == h.duration_of_data_record
        rec_from == from_second \div d
        rec_to == -((-to) \div d)
        x == IF rec_from = rec_to
             THEN ReadSignalFromRecord(f, h, signal, rec_from)
             ELSE ReadRange(f, h, signal, rec_from, rec_to)
    IN  IF d = 0 THEN Raised(f)
        ELSE IF ~x.ok THEN x
        ELSE IF Len(x.time) # Len(x.samples) THEN [x EXCEPT !.ok = FALSE]
        ELSE [x EXCEPT !.time = Keep(x.time, x.time, from_second, to),
                       !.samples = Keep(x.samples, x.time, from_second, to)]

\* EdfReader.close()
ReaderClose(f) == [f EXCEPT !.st = "closed"]

(***************************************************************************)
(* The inputs of the model.                                                *)
(***************************************************************************)
\* datetime.now() at the construction of the header
Today == [year |-> 2026, month |-> 11, day |-> 5]
Now == [hour |-> 6, minute |-> 0, second |-> 7]

\* 'A', 1 Hz and 'B', 3 Hz
SigA == EdfSignal(<<65>>, 1)
SigB == EdfSignal(<<66>>, 3)

SignalLists == {<<>>, <<SigA>>, <<SigB, SigA>>}

\* saving_period_s, in tenths of a second: 0, 0.5 and 1
Periods == {0, 5, 10}

\* number_of_data_records of the header before the writer gets it: as
\* constructed, or as a caller (or an earlier session) left it
CountsBefore == {-1, 5}

\* subject_id.code of the header before the writer gets it: the default,
\* or 80 letters, which make the subject's string longer than its 80 bytes
CodesBefore == {<<>>, Repeat(83, IdLen)}

\* The buffers a caller hands to write_data_record for records of n bytes:
\* n bytes of one value, or a single byte (not a record's size unless n = 1).
Buffers(n) == {Repeat(v, n) : v \in {49, 50}} \cup {<<57>>}

\* subject codes a caller assigns during a session: 'S 1'
Codes == {<<83, SP, 49>>}

NoHeader == EdfHeader(NoDate, [hour |-> 0, minute |-> 0, second |-> 0], 0, <<>>)
\* no pack() yet: `of` is the header that was packed
NoResult == [ok |-> FALSE, bytes |-> <<>>, of |-> NoHeader]
\* no header_fromfile() yet: `from` is the bytes that were parsed
NoParse == [ok |-> FALSE, header |-> NoHeader, from |-> <<>>]

(***************************************************************************)
(* The writing session.                                                    *)
(*   session.mode    "idle": no writer yet; "plain": a writer, used as an  *)
(*                   object; "with": a writer inside a with-block;         *)
(*                   "exited": the with-block was left; "failed": the      *)
(*                   constructor raised; "killed": the process was killed  *)
(*   session.period  saving_period_s given to the constructor              *)
(*   session.start   the cursor when the constructor returned              *)
(*   session.written the buffers of the write_data_record calls that       *)
(*                   returned, in order (after the `many` empty ones)      *)
(*   session.many    zero-length records appended by WriteManyEmpty        *)
(*   session.thrown  an exception was raised inside the with-block         *)
(*   session.raised  an exception left the with-block                      *)
(*   session.ops     operations made on the header object                  *)
(***************************************************************************)
Init ==
    /\ \E sigs \in SignalLists, n \in CountsBefore, code \in CodesBefore :
          header = [EdfHeader(Today, Now, 0, sigs)
                       EXCEPT !.number_of_data_records = n,
                              !.subject_id.code = IdText(code)]
    /\ file = NoFile
    /\ session = [mode |-> "idle", period |-> 0, start |-> 0, written |-> <<>>,
                  many |-> 0, thrown |-> FALSE, raised |-> FALSE, ops |-> 0]
    /\ packed = NoResult
    /\ parsed = NoParse
    /\ last = [op |-> "init", ok |-> TRUE, arg |-> <<>>]

Active == session.mode \in {"plain", "with"}

\* writer = EdfWriter(filename, header, period), or `with EdfWriter(...) as writer:`
Open(period, mode) ==
    LET r == OpenWriter(header, period)
    IN  /\ session.mode = "idle"
        /\ header' = r.h
        /\ file' = r.f
        /\ session' = [session EXCEPT !.mode = IF r.ok THEN mode ELSE "failed",
                                      !.period = period, !.start = r.f.pos]
        /\ last' = [op |-> "open", ok |-> r.ok, arg |-> <<>>]
        /\ UNCHANGED <<packed, parsed>>

\* writer.write_data_record(buffer)
Write(buffer) ==
    LET r == WriteDataRecord(header, file, buffer)
    IN  /\ Active
        /\ Len(session.written) < MaxRecords
        /\ header' = r.h
        /\ file' = r.f
        /\ session' = [session EXCEPT !.written = IF r.ok THEN Append(@, buffer) ELSE @]
        /\ last' = [op |-> "write_data_record", ok |-> r.ok, arg |-> buffer]
        /\ UNCHANGED <<packed, parsed>>

\* ManyRecords calls of writer.write_data_record(b'') in a row, right after
\* the constructor.  Nothing is appended; the counter grows from 0 by one a
\* call and every call rewrites the same bytes of the header, so what the
\* run leaves is what its last call writes.
WriteManyEmpty ==
    LET h1 == [header EXCEPT !.number_of_data_records = @ + ManyRecords - 1]
        r == WriteDataRecord(h1, file, <<>>)
    IN  /\ Active
        /\ file.st = "open"
        /\ session.written = <<>>
        /\ session.many = 0
        /\ header.number_of_data_records = 0
        /\ header' = r.h
        /\ file' = r.f
        /\ session' = [session EXCEPT !.many = ManyRecords]
        /\ last' = [op |-> "write_data_record", ok |-> r.ok, arg |-> <<>>]
        /\ UNCHANGED <<packed, parsed>>

\* writer.header.subject_id.code = code
SetSubjectCode(code) ==
    /\ Active
    /\ header.subject_id.code # IdText(code)
    /\ header' = [header EXCEPT !.subject_id.code = IdText(code)]
    /\ last' = [op |-> "set_code", ok |-> TRUE, arg |-> <<>>]
    /\ UNCHANGED <<file, session, packed, parsed>>

\* writer.write_header()
WriteHeaderCall ==
    LET r == WriteHeader(header, file)
    IN  /\ Active
        /\ last.op # "write_header"
        /\ header' = r.h
        /\ file' = r.f
        /\ last' = [op |-> "write_header", ok |-> r.ok, arg |-> <<>>]
        /\ UNCHANGED <<session, packed, parsed>>

\* writer.close()
Close ==
    LET r == CloseWriter(header, file)
    IN  /\ Active
        /\ last.op # "close"
        /\ header' = r.h
        /\ file' = r.f
        /\ last' = [op |-> "close", ok |-> r.ok, arg |-> <<>>]
        /\ UNCHANGED <<session, packed, parsed>>

\* The with-block ends, normally or (thrown) by an exception raised in its
\* body: __exit__ calls close() and returns None, so the exception goes on;
\* an exception of close() itself leaves the block as well.
ExitWith(thrown) ==
    LET r == CloseWriter(header, file)
    IN  /\ session.mode = "with"
        /\ header' = r.h
        /\ file' = r.f
        /\ session' = [session EXCEPT !.mode = "exited", !.thrown = thrown,
                                      !.raised = thrown \/ ~r.ok]
        /\ last' = [op |-> "exit", ok |-> r.ok, arg |-> <<>>]
        /\ UNCHANGED <<packed, parsed>>

\* The process is killed: what the handle had not yet handed over is lost.
Kill ==
    /\ Active
    /\ file.st = "open"
    /\ file' = [file EXCEPT !.buf = <<>>, !.st = "dead"]
    /\ session' = [session EXCEPT !.mode = "killed"]
    /\ last' = [op |-> "kill", ok |-> TRUE, arg |-> <<>>]
    /\ UNCHANGED <<header, packed, parsed>>

Next ==
    \/ \E period \in Periods, mode \in {"plain", "with"} : Open(period, mode)
    \/ \E buffer \in Buffers(BytesInRecord(header)) : Write(buffer)
    \/ WriteManyEmpty
    \/ \E code \in Codes : SetSubjectCode(code)
    \/ WriteHeaderCall
    \/ Close
    \/ \E thrown \in BOOLEAN : ExitWith(thrown)
    \/ Kill

Spec == Init /\ [][Next]_vars


(***************************************************************************)
(* Properties of the writing session.                                      *)
(***************************************************************************)
\* records the session appended
NumWritten == session.many + Len(session.written)

\* buffer number i (from 0) of the session
BufferAt(i) == IF i < session.many THEN <<>> ELSE session.written[i - session.many + 1]

\* the first and the last three record numbers below k
SomeRecords(k) == {i \in {0, 1, 2, k - 3, k - 2, k - 1} : i >= 0 /\ i < k}

\* The header an EdfReader of the file on disk parses.
OnDisk == HeaderFromFile(file.disk)

\* C1: with a writer open and not yet closed, after k write_data_record calls
\* the 8 bytes at offset 236 of the file on disk are the decimal text of k,
\* left-justified and space-padded, and a reader of that file reports k.
C1_CounterDurable ==
    (Active /\ file.st = "open") =>
        /\ Slice(file.disk, NrPos, NrPos + NrSize) = LJust(IntStr(NumWritten), NrSize)
        /\ OnDisk.ok
        /\ OnDisk.header.number_of_data_records = NumWritten

\* C2: when every buffer written had exactly bytesPerRecord bytes, after k
\* writes and close() the file is headerSize + k * bytesPerRecord bytes long
\* and read_record(i) of a reader of the file is the i-th buffer written.
C2_RoundTrip ==
    (/\ session.mode \in {"plain", "with", "exited"}
     /\ file.st = "closed"
     /\ \A j \in 1..Len(session.written) : Len(session.written[j]) = BytesInRecord(header))
    =>
        /\ Len(file.disk) = header.number_of_bytes_in_header + NumWritten * BytesInRecord(header)
        /\ \A i \in SomeRecords(NumWritten) :
              /\ OnDisk.ok
              /\ ReadRecord(file.disk, OnDisk.header, i) = [ok |-> TRUE, samples |-> BufferAt(i)]

\* C3: a write_data_record call that returns leaves the cursor len(buffer)
\* bytes past where it was, which is the end of the file, and the bytes from
\* the end of the header on are the buffers written so far, one after another.
C3_CursorAfterWrite ==
    [][(last'.op = "write_data_record" /\ last'.ok) =>
          /\ file'.pos = file.pos + Len(last'.arg)
          /\ file'.pos = Len(Content(file'))
          /\ Slice(Content(file'), session'.start, Len(Content(file')))
                = Concat(session'.written)]_vars

C3_Witness ==
    /\ last.op = "write_data_record" /\ last.ok
    /\ Len(session.written) = 2
    /\ Len(session.written[1]) > 1 /\ Len(session.written[2]) > 1
    /\ session.written[1] # session.written[2]

\* The operations that run update_number_of_records.
PatchesCounter(op) == op \in {"write_data_record", "close", "exit"}

\* C4: an operation that patches the record counter leaves every byte the
\* file had outside offsets 236..243 as it was.
C4_PatchOnlyCounter ==
    [][PatchesCounter(last'.op) =>
          \A i \in 1..Len(Content(file)) :
              (i <= NrPos \/ i > NrPos + NrSize) => Content(file')[i] = Content(file)[i]]_vars

\* C5: after close() the header on disk is the packing of the header object
\* as it is then: a field changed after the constructor is in the file.
C5_CloseRewritesHeader ==
    (Active /\ last.op = "close" /\ last.ok) =>
        Slice(file.disk, 0, NrPos) = Slice(Pack(header).bytes, 0, NrPos)

\* C5, amended: close() writes the counter's text at offset 236 and nothing
\* before it: bytes 0..235 of the closed file (version, identities, start
\* date and time, header size, reserved) are those last written before.
C5_CloseKeepsHeader ==
    [][(last'.op \in {"close", "exit"} /\ last'.ok) =>
          /\ file'.st = "closed"
          /\ file'.buf = <<>>
          /\ Slice(file'.disk, 0, NrPos) = Slice(Content(file), 0, NrPos)]_vars

\* a closed file whose subject field is not the header object's
C5_Witness ==
    /\ last.op = "close" /\ last.ok
    /\ Slice(file.disk, 0, NrPos) # Slice(Pack(header).bytes, 0, NrPos)

\* The state the constructor leaves, but for the samples per record.
OpenedState ==
    /\ header.duration_of_data_record = session.period
    /\ header.number_of_data_records = 0
    /\ Pack(header).ok
    /\ Content(file) = Pack(header).bytes
    /\ Len(Content(file)) = 256 + 256 * header.number_of_signals
    /\ file.pos = Len(Content(file))

\* C6: right after the constructor: the duration is the period given, the
\* counter is 0, every signal's samples per record is sampling_freq x period,
\* the file holds the packed header and the cursor is at its end.
C6_Opened ==
    (last.op = "open" /\ last.ok) =>
        /\ OpenedState
        /\ \A i \in 1..Len(header.signals) :
              LET sig == header.signals[i]
              IN  sig.number_of_samples_in_data_record * sig.sampling_freq.den * 10
                    = sig.sampling_freq.num * session.period

\* C6, amended: the samples per record is sampling_freq x period cut to an
\* integer (int() of the product).
C6_OpenedTruncated ==
    (last.op = "open" /\ last.ok) =>
        /\ OpenedState
        /\ \A i \in 1..Len(header.signals) :
              LET sig == header.signals[i]
                  n == sig.number_of_samples_in_data_record
                  q == sig.sampling_freq.den * 10
                  p == sig.sampling_freq.num * session.period
              IN  n * q <= p /\ p < (n + 1) * q

\* a writer just opened on two signals, one of which lost half a sample
C6_Witness ==
    /\ last.op = "open" /\ last.ok
    /\ Len(header.signals) = 2
    /\ header.signals[1].number_of_samples_in_data_record = 1
    /\ session.period = 5

\* C7: once the with-block is left, normally or by an exception, the handle
\* is closed, the counter on disk is the number of records written, and an
\* exception raised in the block has gone on to the caller.
C7_WithCloses ==
    session.mode = "exited" =>
        /\ file.st = "closed"
        /\ Slice(file.disk, NrPos, NrPos + NrSize) = LJust(IntStr(NumWritten), NrSize)
        /\ (session.thrown => session.raised)


(***************************************************************************)
(* A caller working on an EdfHeader object: the operations the class and   *)
(* the list it hands out offer, pack() and header_fromfile().              *)
(*   session.ops     operations made so far                                *)
(*   session.other   a second header object, constructed with the default  *)
(*                   signals argument                                      *)
(*   session.shared  the two headers hold the same list object as their    *)
(*                   signals                                               *)
(***************************************************************************)
\* texts a caller gives as a signal's reserved field
ReservedTexts == {<<82>>, Repeat(82, 288)}
\* values a caller assigns to number_of_bytes_in_header
HeaderSizes == {256, 768}
\* durations the header is constructed with
HeaderDurations == {0, 10}

\* header = EdfHeader(duration_of_data_record=d, signals=sigs), or
\* EdfHeader(duration_of_data_record=d) whose signals are the list object
\* that is the default of the argument (signals=[] in the def line), and
\* other = EdfHeader(duration_of_data_record=d), which has that object too
InitHeader ==
    /\ \E sigs \in SignalLists, d \in HeaderDurations, default \in BOOLEAN :
          /\ default => sigs = <<>>
          /\ header = EdfHeader(Today, Now, d, sigs)
          /\ session = [mode |-> "idle", period |-> 0, start |-> 0, written |-> <<>>,
                        many |-> 0, thrown |-> FALSE, raised |-> FALSE, ops |-> 0,
                        other |-> EdfHeader(Today, Now, d, <<>>), shared |-> default]
    /\ file = NoFile
    /\ packed = NoResult
    /\ parsed = NoParse
    /\ last = [op |-> "init", ok |-> TRUE, arg |-> <<>>]

\* One more operation of the caller, after which header's list object
\* holds `signals` and is (shared) or is not the list object of the other
\* header: a list that two headers hold changes for both.
HStepList(op, shared, signals) ==
    /\ session.ops < MaxHeaderOps
    /\ session' = [session EXCEPT !.ops = @ + 1,
                                  !.shared = shared,
                                  !.other.signals = IF shared THEN signals ELSE @]
    /\ last' = [op |-> op, ok |-> TRUE, arg |-> <<>>]
    /\ UNCHANGED file

\* one more operation of the caller that leaves the list as it is
HStep(op) == HStepList(op, session.shared, header.signals)

\* header.signals = values
HAssignSignals(values) ==
    /\ HStepList("signals", FALSE, values)
    /\ header' = SetSignals(header, values)
    /\ UNCHANGED <<packed, parsed>>

\* header.signals.append(sig): the getter returns the list object itself
HAppendInPlace(sig) ==
    /\ HStepList("append", session.shared, Append(header.signals, sig))
    /\ Len(header.signals) < 2
    /\ header' = [header EXCEPT !.signals = Append(@, sig)]
    /\ UNCHANGED <<packed, parsed>>

\* header.signals.pop()
HPopInPlace ==
    /\ header.signals # <<>>
    /\ HStepList("pop", session.shared, SubSeq(header.signals, 1, Len(header.signals) - 1))
    /\ header' = [header EXCEPT !.signals = SubSeq(@, 1, Len(@) - 1)]
    /\ UNCHANGED <<packed, parsed>>

\* header.number_of_bytes_in_header = value
HSetBytesInHeader(value) ==
    /\ HStep("number_of_bytes_in_header")
    /\ header' = [header EXCEPT !.number_of_bytes_in_header = value]
    /\ UNCHANGED <<packed, parsed>>

\* header.signals[i - 1].reserved = text
HSetSigReserved(i, text) ==
    /\ i <= Len(header.signals)
    /\ HStepList("reserved", session.shared,
                 [header.signals EXCEPT ![i] = SetSigReserved(@, text)])
    /\ header' = [header EXCEPT !.signals[i] = SetSigReserved(@, text)]
    /\ UNCHANGED <<packed, parsed>>

\* header.subject_id.<field> = text or header.recording_id.<field> = text,
\* for the fields whose setter is strip, 'X' when blank, underscores
HSetIdentity(part, field, text) ==
    /\ session.ops < MaxHeaderOps
    /\ session' = [session EXCEPT !.ops = @ + 1]
    /\ header' = [header EXCEPT ![part][field] = IdText(text)]
    /\ last' = [op |-> field, ok |-> TRUE, arg |-> text]
    /\ UNCHANGED <<file, packed, parsed>>

\* header.subject_id.sex = text
HSetSex(text) ==
    LET r == SetSex(header.subject_id, text)
    IN  /\ session.ops < MaxHeaderOps
        /\ session' = [session EXCEPT !.ops = @ + 1]
        /\ header' = [header EXCEPT !.subject_id = r.val]
        /\ last' = [op |-> "sex", ok |-> r.ok, arg |-> text]
        /\ UNCHANGED <<file, packed, parsed>>

\* header.pack()
HPack ==
    /\ HStep("pack")
    /\ packed' = [ok |-> Pack(header).ok, bytes |-> Pack(header).bytes, of |-> header]
    /\ UNCHANGED <<header, parsed>>

\* header = header_fromfile(f) on a file that holds the bytes packed last
HFromFile ==
    LET r == HeaderFromFile(packed.bytes)
    IN  /\ HStepList("header_fromfile", session.shared /\ ~r.ok, header.signals)
        /\ packed.ok
        /\ parsed' = [ok |-> r.ok, header |-> r.header, from |-> packed.bytes]
        /\ header' = IF r.ok THEN r.header ELSE header
        /\ UNCHANGED packed

NextHeader ==
    \/ \E values \in SignalLists : HAssignSignals(values)
    \/ \E sig \in {SigA, SigB} : HAppendInPlace(sig)
    \/ HPopInPlace
    \/ \E value \in HeaderSizes : HSetBytesInHeader(value)
    \/ \E i \in 1..2, text \in ReservedTexts : HSetSigReserved(i, text)
    \/ \E pf \in {<<"subject_id", "code">>, <<"subject_id", "name">>,
                  <<"recording_id", "experiment_id">>,
                  <<"recording_id", "investigator_id">>,
                  <<"recording_id", "equipment_code">>},
          text \in {<<SP>>, <<SP, 65, SP, 66, SP>>} : HSetIdentity(pf[1], pf[2], text)
    \/ \E text \in {<<SP>>, <<SP, 70>>, <<102>>} : HSetSex(text)
    \/ HPack
    \/ HFromFile

SpecHeader == InitHeader /\ [][NextHeader]_vars

\* byte at which field f of signal i (from 0) of ns signals starts
FieldStart(ns, f, i) == 256 + ns * SizesBefore(SigSizes, f) + i * SigSizes[f]

\* C8: the header's number_of_signals is the length of its signal list and
\* its number_of_bytes_in_header is 256 + 256 * number_of_signals, whatever
\* the caller has done.
C8_DerivedCounts ==
    /\ header.number_of_signals = Len(header.signals)
    /\ header.number_of_bytes_in_header = 256 + 256 * header.number_of_signals

\* C9: a pack() that returns gives 256 + 256 * number_of_signals bytes, 256
\* of them the main block, and it returns only if the text of every field of
\* every signal fits the field's width.
C9_PackLength ==
    packed.ok =>
        /\ Len(packed.bytes) = 256 + 256 * packed.of.number_of_signals
        /\ Len(MainHdr(packed.of)) = 256
        /\ \A i \in 1..Len(packed.of.signals), f \in 1..10 :
              Len(SigFieldStr(packed.of.signals[i], f)) <= SigSizes[f]

\* C10: in the bytes pack() returns, field f of signal i of the header's ns
\* signals is at 256 + ns * (widths before f) + i * width(f), so two signals'
\* labels fill bytes 256..287; header_fromfile takes each signal's fields
\* from the same places.
C10_FieldMajor ==
    /\ packed.ok =>
          LET h == packed.of
          IN  /\ \A i \in 1..Len(h.signals), f \in 1..10 :
                    Slice(packed.bytes, FieldStart(h.number_of_signals, f, i - 1),
                          FieldStart(h.number_of_signals, f, i - 1) + SigSizes[f])
                      = LJust(SigFieldStr(h.signals[i], f), SigSizes[f])
              /\ Len(h.signals) = 2 =>
                    Slice(packed.bytes, 256, 288)
                      = LJust(h.signals[1].label, 16) \o LJust(h.signals[2].label, 16)
    /\ parsed.ok =>
          LET ns == parsed.header.number_of_signals
          IN  \A i \in 1..ns :
                parsed.header.signals[i] =
                    SignalFromFields(
                        [f \in 1..10 |->
                            Slice(parsed.from, FieldStart(ns, f, i - 1),
                                  FieldStart(ns, f, i - 1) + SigSizes[f])],
                        parsed.header.duration_of_data_record).val

\* A header whose derived counts agree with its signal list and whose
\* fields all fit their widths.
ValidHeader(h) ==
    /\ h.number_of_signals = Len(h.signals)
    /\ h.number_of_bytes_in_header = 256 + 256 * h.number_of_signals
    /\ \A f \in 1..10 : Len(MainFieldStr(h, f)) <= HdrSizes[f]
    /\ \A i \in 1..Len(h.signals), f \in 1..10 :
          Len(SigFieldStr(h.signals[i], f)) <= SigSizes[f]

\* The ten descriptor fields of two signals agree.
SameSignalFields(a, b) ==
    /\ a.label = b.label
    /\ a.transducer_type = b.transducer_type
    /\ a.physical_dim = b.physical_dim
    /\ a.physical_min = b.physical_min
    /\ a.physical_max = b.physical_max
    /\ a.digital_min = b.digital_min
    /\ a.digital_max = b.digital_max
    /\ a.prefiltering = b.prefiltering
    /\ a.number_of_samples_in_data_record = b.number_of_samples_in_data_record
    /\ a.reserved = b.reserved

\* Header a, read from a file, has the fields of header b once the texts
\* are trimmed.
SameHeaderFields(a, b) ==
    /\ Strip(a.version) = Strip(b.version)
    /\ a.subject_id = b.subject_id
    /\ a.recording_id = b.recording_id
    /\ a.startdate = b.startdate
    /\ a.starttime = b.starttime
    /\ a.number_of_bytes_in_header = b.number_of_bytes_in_header
    /\ Strip(a.reserved) = Strip(b.reserved)
    /\ a.number_of_data_records = b.number_of_data_records
    /\ a.duration_of_data_record = b.duration_of_data_record
    /\ a.number_of_signals = b.number_of_signals
    /\ Len(a.signals) = Len(b.signals)
    /\ \A i \in 1..Len(b.signals) : SameSignalFields(a.signals[i], b.signals[i])

\* C11: header_fromfile on the bytes pack() gave for a valid header returns
\* a header with the same fields: version, identities, start date and time,
\* header size, reserved, record count, duration, signal count and the ten
\* fields of every signal, in order.
C11_HeaderRoundTrip ==
    (last.op = "header_fromfile" /\ ValidHeader(packed.of)) =>
        /\ parsed.ok
        /\ SameHeaderFields(parsed.header, packed.of)


(***************************************************************************)
(* A reader of a recording: EdfReader on a file that a writer produced.    *)
(*   header  the header the reader parsed from the file                    *)
(*   file    the reader's handle                                           *)
(*   last    the last call: its arguments (arg), whether it returned (ok), *)
(*           the positions it sought (seeks), the lengths it asked to read *)
(*           (reads), the bytes read (data) and what it returned (time,    *)
(*           samples)                                                      *)
(***************************************************************************)
\* most records in a recording
MaxReaderRecords == 3

\* to_second left at its default, np.Inf: later than every recording ends
Forever == 1000000

\* a signal sampled at 10 Hz
SigC == EdfSignal(<<67>>, 10)

\* sample j (from 0) of record r of signal i (from 1): a value that tells
\* them all apart, as the two bytes of an int16
SampleBytes(i, n, r, j) == <<64 * (i - 1) + r * n + j, 0>>

\* the buffer of record r for the signals of header h
RecordData(h, r) ==
    Concat([i \in 1..Len(h.signals) |->
        Concat([j \in 1..h.signals[i].number_of_samples_in_data_record |->
            SampleBytes(i, h.signals[i].number_of_samples_in_data_record, r, j - 1)])])

RECURSIVE Recorded(_, _, _)
\* the writer w after write_data_record for records r .. k - 1
Recorded(w, r, k) ==
    IF r >= k THEN w
    ELSE Recorded(WriteDataRecord(w.h, w.f, RecordData(w.h, r)), r + 1, k)

\* The file after EdfWriter(...), k records and close(), records of 1 s.
Recording(sigs, k) ==
    LET w == Recorded(OpenWriter(EdfHeader(Today, Now, 0, sigs), 10), 0, k)
    IN  CloseWriter(w.h, w.f).f.disk

\* An empty recording and a full one, of one signal and of two, and a full
\* one that lost the second half of its last record (the reader does not
\* compare the size of the file with its header).
ReaderFiles ==
    {Recording(sigs, k) : sigs \in {<<SigC>>, <<SigB, SigA>>}, k \in {0, MaxReaderRecords}}
      \cup {SubSeq(Recording(<<SigC>>, MaxReaderRecords), 1,
                    512 + 20 * MaxReaderRecords - 10)}

NoCall ==
    [op |-> "init", ok |-> TRUE, arg |-> <<>>, seeks |-> <<>>, reads |-> <<>>,
     data |-> <<>>, time |-> <<>>, samples |-> <<>>]

\* reader = EdfReader(filename)
InitReader ==
    /\ \E bytes \in ReaderFiles :
          /\ HeaderFromFile(bytes).ok
          /\ header = HeaderFromFile(bytes).header
          /\ file = ROpen(bytes)
    /\ session = [mode |-> "idle", period |-> 0, start |-> 0, written |-> <<>>,
                  many |-> 0, thrown |-> FALSE, raised |-> FALSE, ops |-> 0]
    /\ packed = NoResult
    /\ parsed = NoParse
    /\ last = NoCall

\* what a call leaves in `last`
CallResult(op, arg, x) ==
    [op |-> op, ok |-> x.ok, arg |-> arg, seeks |-> x.seeks, reads |-> x.reads,
     data |-> x.data, time |-> x.time, samples |-> x.samples]

\* reader.read_record(rec_number)
RReadRecord(rec_number) ==
    LET x == ReaderReadRecord(file, header, rec_number)
    IN  /\ file' = x.f
        /\ last' = CallResult("read_record", <<rec_number>>, x)
        /\ UNCHANGED <<header, session, packed, parsed>>

\* reader.read_signal_from_record(sig_number, rec_number)
RReadSignalFromRecord(sig_number, rec_number) ==
    LET x == ReadSignalFromRecord(file, header, sig_number, rec_number)
    IN  /\ file' = x.f
        /\ last' = CallResult("read_signal_from_record", <<sig_number, rec_number>>, x)
        /\ UNCHANGED <<header, session, packed, parsed>>

\* reader.read_signal(signal, from_second, to_second)
RReadSignal(signal, from_second, to_second) ==
    LET x == ReadSignal(file, header, signal, from_second, to_second)
    IN  /\ file' = x.f
        /\ last' = CallResult("read_signal", <<signal, from_second, to_second>>, x)
        /\ UNCHANGED <<header, session, packed, parsed>>

\* reader.close()
RClose ==
    /\ file' = ReaderClose(file)
    /\ last' = [NoCall EXCEPT !.op = "close"]
    /\ UNCHANGED <<header, session, packed, parsed>>

\* The calls a caller makes: record numbers from -1 to one past the last
\* record, signal numbers from -1 to 2, and times (tenths of a second) with
\* from_second <= to_second.
NextReader ==
    \/ \E r \in (-1)..MaxReaderRecords : RReadRecord(r)
    \/ \E s \in (-1)..2, r \in (-1)..MaxReaderRecords : RReadSignalFromRecord(s, r)
    \/ \E s \in 0..1, from_second, to_second \in {0, 5, 10, 20, 30, Forever} :
          /\ from_second <= to_second
          /\ RReadSignal(s, from_second, to_second)
    \/ RClose

SpecReader == InitReader /\ [][NextReader]_vars

\* C12: read_record(r) with r >= number_of_data_records, and
\* read_signal_from_record(s, r) with s >= number_of_signals or
\* r >= number_of_data_records, raise before any seek or read: nothing is
\* sought, nothing read, and the reader's handle and header stay as they were.
C12_OutOfRangeRejected ==
    [][(\/ /\ last'.op = "read_record"
           /\ last'.arg[1] >= header.number_of_data_records
        \/ /\ last'.op = "read_signal_from_record"
           /\ \/ last'.arg[1] >= header.number_of_signals
              \/ last'.arg[2] >= header.number_of_data_records)
       => /\ ~last'.ok
          /\ last'.seeks = <<>> /\ last'.reads = <<>> /\ last'.data = <<>>
          /\ last'.samples = <<>>
          /\ file' = file
          /\ header' = header]_vars

\* a read past the last record refused after an earlier read moved the cursor
C12_Witness ==
    /\ last.op = "read_record"
    /\ last.arg[1] = header.number_of_data_records
    /\ header.number_of_data_records = MaxReaderRecords
    /\ ~last.ok
    /\ file.st = "open"
    /\ file.pos > header.number_of_bytes_in_header

\* C13: read_signal_from_record(s, r) raises for every negative s and every
\* negative r, and no position it seeks lies before the data region.
C13_NegativeRejected ==
    last.op = "read_signal_from_record" =>
        /\ (last.arg[1] < 0 \/ last.arg[2] < 0) => (~last.ok /\ last.seeks = <<>>)
        /\ \A k \in 1..Len(last.seeks) :
              last.seeks[k] >= header.number_of_bytes_in_header

\* sample m (from 0) of signal s (from 0) of the recording in `bytes`, as a
\* physical value
SampleOf(bytes, h, s, m) ==
    LET n == h.signals[s + 1].number_of_samples_in_data_record
        at == h.number_of_bytes_in_header + (m \div n) * BytesInRecord(h)
                + RecordPointers(h)[s + 1] + 2 * (m % n)
    IN  DigToPhys(h.signals[s + 1], bytes[at + 1] + 256 * bytes[at + 2]).val

\* The samples of signal s whose time, m * duration / n for sample m, is in
\* from_second <= t < to_second, in time order.
SamplesBetween(bytes, h, s, from_second, to_second) ==
    LET n == h.signals[s + 1].number_of_samples_in_data_record
        d == h.duration_of_data_record
        ms == {m \in 0..(h.number_of_data_records * n - 1) :
                  m * d >= from_second * n /\ m * d < to_second * n}
        nth(k) == CHOOSE m \in ms : Cardinality({i \in ms : i < m}) = k - 1
    IN  [k \in 1..Cardinality(ms) |-> SampleOf(bytes, h, s, nth(k))]

\* C14: read_signal(s, from_second, to_second) of an open reader, for a
\* signal of the file and 0 <= from_second <= to_second, returns exactly the
\* samples with from_second <= t < to_second in time order; on 3 records of
\* 1 s at 10 Hz, read_signal(0, 1.0, 2.0) returns samples 10..19.
C14_ReadSignalRange ==
    (/\ last.op = "read_signal"
     /\ file.st = "open"
     /\ last.arg[1] < header.number_of_signals)
    =>
        /\ last.ok
        /\ last.samples =
              SamplesBetween(file.disk, header, last.arg[1], last.arg[2], last.arg[3])
        /\ (/\ header.signals[1].number_of_samples_in_data_record = 10
            /\ header.number_of_data_records = 3
            /\ last.arg = <<0, 10, 20>>)
           => last.samples = [k \in 1..10 |-> [num |-> 10 * (9 + k), den |-> 1]]

\* bytesPerSignal[i] = 2 * n_i, for signal i from 0
BytesPerSignal(h, i) == 2 * h.signals[i + 1].number_of_samples_in_data_record

RECURSIVE SignalByteOffset(_, _)
\* signalByteOffset[i] = sum of bytesPerSignal[0..i)
SignalByteOffset(h, i) ==
    IF i <= 0 THEN 0 ELSE SignalByteOffset(h, i - 1) + BytesPerSignal(h, i - 1)

\* C15: a read_signal_from_record(s, r) with valid indices on an open reader
\* returns, having sought headerSize + r * bytesPerRecord + signalByteOffset[s]
\* and read bytesPerSignal[s] bytes; the signals' ranges follow one another
\* from the start of the record to its end, so they are disjoint, inside the
\* record, and cover it.
C15_RecordLayout ==
    (/\ last.op = "read_signal_from_record"
     /\ file.st = "open"
     /\ last.arg[1] >= 0 /\ last.arg[1] < header.number_of_signals
     /\ last.arg[2] >= 0 /\ last.arg[2] < header.number_of_data_records)
    =>
        LET ns == header.number_of_signals
            bpr == SignalByteOffset(header, ns)
            start(s) == header.number_of_bytes_in_header + last.arg[2] * bpr
                          + SignalByteOffset(header, s)
        IN  /\ last.ok
            /\ last.seeks = <<start(last.arg[1])>>
            /\ last.reads = <<BytesPerSignal(header, last.arg[1])>>
            /\ last.data = Slice(file.disk, start(last.arg[1]),
                                 start(last.arg[1]) + BytesPerSignal(header, last.arg[1]))
            /\ file.pos = start(last.arg[1]) + BytesPerSignal(header, last.arg[1])
            /\ BytesInRecord(header) = bpr
            /\ \A s \in 0..(ns - 1) :
                  /\ RecordBytes(header)[s + 1] = BytesPerSignal(header, s)
                  /\ RecordPointers(header)[s + 1] = SignalByteOffset(header, s)
                  /\ start(s) + BytesPerSignal(header, s) = start(s + 1)

\* C16: a read_record, read_signal_from_record or read_signal called after
\* close() raises and returns no data, whatever its arguments.
C16_ReadAfterClose ==
    (file.st = "closed" /\ last.op \in {"read_record", "read_signal_from_record", "read_signal"})
    =>
        /\ ~last.ok
        /\ last.data = <<>> /\ last.samples = <<>>


(***************************************************************************)
(* One signal descriptor: EdfSignal, its four bounds, its gain and the two *)
(* conversions.                                                            *)
(*   header  a header whose only signal is the descriptor                  *)
(*   last    the last call: the value given (arg), whether it returned     *)
(*           (ok), for a conversion the digital value (dig) and the        *)
(*           physical value got back from it (phys), for header_fromfile   *)
(*           the header it returned (header)                               *)
(***************************************************************************)
\* values given for the physical bounds (tenths) and for the digital bounds
PhysicalBounds == {-20, 0, 20}
DigitalBounds == {-32768, 0, 32767, 40000}

\* sig = EdfSignal('A', physical_min=..., physical_max=..., digital_min=...,
\* digital_max=...) that returned, held by a header with records of 1 s
InitSignal ==
    /\ \E pmin, pmax \in PhysicalBounds, dmin, dmax \in DigitalBounds :
          LET new == NewSignal(<<65>>, pmin, pmax, dmin, dmax, 1)
          IN  /\ new.ok
              /\ header = EdfHeader(Today, Now, 10, <<new.sig>>)
              /\ last = [op |-> "init", ok |-> TRUE, arg |-> 0]
    /\ file = NoFile
    /\ session = [mode |-> "idle", period |-> 0, start |-> 0, written |-> <<>>,
                  many |-> 0, thrown |-> FALSE, raised |-> FALSE, ops |-> 0]
    /\ packed = NoResult
    /\ parsed = NoParse

\* sig.physical_min = value
SAssignPhysicalMin(value) ==
    LET x == SetPhysicalMin(header.signals[1], value)
    IN  /\ header' = [header EXCEPT !.signals[1] = x.sig]
        /\ last' = [op |-> "physical_min", ok |-> x.ok, arg |-> value]
        /\ UNCHANGED <<file, session, packed, parsed>>

\* sig.physical_max = value
SAssignPhysicalMax(value) ==
    LET x == SetPhysicalMax(header.signals[1], value)
    IN  /\ header' = [header EXCEPT !.signals[1] = x.sig]
        /\ last' = [op |-> "physical_max", ok |-> x.ok, arg |-> value]
        /\ UNCHANGED <<file, session, packed, parsed>>

\* sig.digital_min = value
SAssignDigitalMin(value) ==
    LET x == SetDigitalMin(header.signals[1], value)
    IN  /\ header' = [header EXCEPT !.signals[1] = x.sig]
        /\ last' = [op |-> "digital_min", ok |-> x.ok, arg |-> value]
        /\ UNCHANGED <<file, session, packed, parsed>>

\* sig.digital_max = value
SAssignDigitalMax(value) ==
    LET x == SetDigitalMax(header.signals[1], value)
    IN  /\ header' = [header EXCEPT !.signals[1] = x.sig]
        /\ last' = [op |-> "digital_max", ok |-> x.ok, arg |-> value]
        /\ UNCHANGED <<file, session, packed, parsed>>

\* sig.dig_to_phys(sig.phys_to_dig(value)), on a build that wraps a negative
\* float cast to uint16 or on one that does not
SConvert(value, wraps) ==
    LET d == PhysToDig(header.signals[1], value, wraps)
        p == DigToPhys(header.signals[1], d.val)
    IN  /\ last' = [op |-> "phys_to_dig", ok |-> d.ok /\ p.ok, arg |-> value,
                    dig |-> d.val, phys |-> p.val]
        /\ UNCHANGED <<header, file, session, packed, parsed>>

\* physical_min, physical_max, digital_min and digital_max given to the
\* constructor: the defaults of the digital bounds, and digital bounds that
\* meet the 0 and the 1 the constructor starts from
ConstructBounds ==
    {<<-20, 20, -32768, 32767>>, <<-20, 0, 0, 32767>>,
     <<0, 20, 1, 32767>>, <<0, 20, -32768, 0>>}

\* header.signals[0] = EdfSignal('A', physical_min=pmin, physical_max=pmax,
\* digital_min=dmin, digital_max=dmax): when the constructor raises, the
\* header keeps the signal it has
SConstruct(pmin, pmax, dmin, dmax) ==
    LET new == NewSignal(<<65>>, pmin, pmax, dmin, dmax, 1)
    IN  /\ header' = IF new.ok THEN [header EXCEPT !.signals[1] = new.sig] ELSE header
        /\ last' = [op |-> "EdfSignal", ok |-> new.ok, arg |-> 0,
                    bounds |-> <<pmin, pmax, dmin, dmax>>]
        /\ UNCHANGED <<file, session, packed, parsed>>

\* header_fromfile(f) on a file that holds header.pack()
SFromFile ==
    LET r == HeaderFromFile(Pack(header).bytes)
    IN  /\ Pack(header).ok
        /\ last' = [op |-> "header_fromfile", ok |-> r.ok, arg |-> 0,
                    header |-> r.header]
        /\ UNCHANGED <<header, file, session, packed, parsed>>

NextSignal ==
    \/ \E value \in PhysicalBounds : SAssignPhysicalMin(value)
    \/ \E value \in PhysicalBounds : SAssignPhysicalMax(value)
    \/ \E value \in DigitalBounds : SAssignDigitalMin(value)
    \/ \E value \in DigitalBounds : SAssignDigitalMax(value)
    \/ \E value \in PhysicalBounds \cup {-7, 13}, wraps \in BOOLEAN : SConvert(value, wraps)
    \/ \E b \in ConstructBounds : SConstruct(b[1], b[2], b[3], b[4])
    \/ SFromFile

SpecSignal == InitSignal /\ [][NextSignal]_vars

\* C17: in every state of a descriptor, after construction and after any
\* assignments to the four bounds, gain * (digital_max - digital_min) =
\* physical_max - physical_min for the bounds it has now: the gain is the
\* one of the current bounds, never of earlier ones.
C17_GainCurrent ==
    LET s == header.signals[1]
    IN  s.gain.dy * (s.digital_max - s.digital_min)
            = (s.physical_max - s.physical_min) * s.gain.dx

\* C18: an assignment to digital_min or digital_max that would make the two
\* equal raises and leaves the four bounds and the gain as they were, and
\* digital_max # digital_min in every state.
C18_EqualRejected ==
    /\ [](header.signals[1].digital_max # header.signals[1].digital_min)
    /\ [][(\/ /\ last'.op = "digital_min"
              /\ last'.arg = header.signals[1].digital_max
           \/ /\ last'.op = "digital_max"
              /\ last'.arg = header.signals[1].digital_min)
          => (~last'.ok /\ header'.signals[1] = header.signals[1])]_vars

\* C19: in every state of a descriptor digital_max - digital_min <= 65535,
\* and a header whose digital range is larger is refused by header_fromfile.
C19_DigitalRange ==
    /\ header.signals[1].digital_max - header.signals[1].digital_min <= 65535
    /\ (last.op = "header_fromfile" /\ last.ok) =>
          \A i \in 1..Len(last.header.signals) :
              last.header.signals[i].digital_max
                  - last.header.signals[i].digital_min <= 65535

\* C20: for a descriptor with digital_min < digital_max inside -32768..32767
\* and physical_min < physical_max, and a value v in physical_min..
\* physical_max, dig_to_phys(phys_to_dig(v)) is less than one gain step from
\* v, phys_to_dig(physical_min) = digital_min and phys_to_dig(physical_max)
\* = digital_max.
C20_ConversionRoundTrip ==
    LET s == header.signals[1]
    IN  (/\ last.op = "phys_to_dig"
         /\ s.digital_min < s.digital_max
         /\ s.digital_min >= -32768 /\ s.digital_max <= 32767
         /\ s.physical_min < s.physical_max
         /\ last.arg >= s.physical_min /\ last.arg <= s.physical_max)
        =>
            /\ last.ok
            /\ last.phys.num - last.arg * last.phys.den < s.gain.dy
            /\ last.arg * last.phys.den - last.phys.num < s.gain.dy
            /\ (last.arg = s.physical_min) => (last.dig = s.digital_min)
            /\ (last.arg = s.physical_max) => (last.dig = s.digital_max)

\* C21: phys_to_dig(v) raises whenever (v - physical_max) / gain +
\* digital_max is outside -32768..32767; it returns no digital value then.
C21_OverflowSignalled ==
    LET s == header.signals[1]
        n == (last.arg - s.physical_max) * s.gain.dx + s.digital_max * s.gain.dy
        d == s.gain.dy
    IN  (/\ last.op = "phys_to_dig"
         /\ d # 0
         /\ \/ d > 0 /\ (n > 32767 * d \/ n < (-32768) * d)
            \/ d < 0 /\ (n < 32767 * d \/ n > (-32768) * d))
        => ~last.ok

\* C22: after any assignment to a text field of a signal (label, transducer
\* type, physical dimension, prefiltering, reserved) the stored text is no
\* longer than the field's width (16, 80, 8, 80, 32).
C22_TextWidths ==
    /\ \A i \in 1..Len(header.signals) :
          /\ Len(header.signals[i].label) <= SigSizes[1]
          /\ Len(header.signals[i].transducer_type) <= SigSizes[2]
          /\ Len(header.signals[i].physical_dim) <= SigSizes[3]
          /\ Len(header.signals[i].prefiltering) <= SigSizes[8]
          /\ Len(header.signals[i].reserved) <= SigSizes[10]

\* C25: on an open reader, whatever the size of the file, read_record(r)
\* with 0 <= r < number_of_data_records returns exactly the bytes of the
\* file at header size + r * bytes per record up to header size + (r + 1) *
\* bytes per record, bytes-per-record of them.
C25_ReadRecordExact ==
    (/\ last.op = "read_record"
     /\ file.st = "open"
     /\ last.arg[1] >= 0 /\ last.arg[1] < header.number_of_data_records)
    =>
        /\ last.ok
        /\ Len(last.data) = BytesInRecord(header)
        /\ \A k \in 1..BytesInRecord(header) :
              /\ header.number_of_bytes_in_header
                    + last.arg[1] * BytesInRecord(header) + k <= Len(file.disk)
              /\ last.data[k] = file.disk[header.number_of_bytes_in_header
                                            + last.arg[1] * BytesInRecord(header) + k]

\* C26: header_fromfile on the bytes of a valid header whose
\* duration_of_data_record is 0 returns the header (the sampling frequency
\* of its signals left aside): every field is parsed as it is for a duration
\* that is not 0.
C26_ZeroDurationParsed ==
    (/\ last.op = "header_fromfile"
     /\ ValidHeader(packed.of)
     /\ packed.of.duration_of_data_record = 0)
    =>
        /\ parsed.ok
        /\ parsed.header.duration_of_data_record = 0
        /\ SameHeaderFields(parsed.header, packed.of)

\* C27: write_header writes bytes 0..header size - 1 of the file and no
\* other: after k records every byte from the end of the header on is what
\* it was.  When it returns, the header's bytes in the file are the packed
\* header and the cursor is where it was if that was beyond the header, and
\* at the end of the header otherwise, which is the end of record k: the
\* next write_data_record appends there.
C27_WriteHeaderFrame ==
    [][(last'.op = "write_header") =>
          LET size == header.number_of_bytes_in_header
          IN  /\ header' = header
              /\ Slice(Content(file'), size, Len(Content(file')))
                    = Slice(Content(file), size, Len(Content(file)))
              /\ ~last'.ok => Content(file') = Content(file) /\ file'.pos = file.pos
              /\ last'.ok =>
                    /\ Slice(Content(file'), 0, size) = Pack(header).bytes
                    /\ file'.pos = IF file.pos > size THEN file.pos ELSE size
                    /\ file'.pos = size + Len(Concat(session.written))
                    /\ file'.pos = Len(Content(file'))]_vars

\* write_header after two records, with a header that has changed since the
\* constructor wrote it
C27_Witness ==
    /\ last.op = "write_header" /\ last.ok
    /\ Len(session.written) = MaxRecords
    /\ Len(Concat(session.written)) > 2
    /\ file.pos > header.number_of_bytes_in_header
    /\ header.subject_id.code = IdText(<<83, SP, 49>>)

\* C28: once close() has closed the file, write_data_record raises: it
\* leaves number_of_data_records and every byte of the file as they were,
\* and the file stays closed.  From the constructor on, the header's
\* number_of_data_records is the number of records the writer appended.
C28_WriteAfterClose ==
    /\ [](session.mode # "idle" => header.number_of_data_records = NumWritten)
    /\ [][file.st = "closed" =>
            /\ file'.st = "closed"
            /\ file'.disk = file.disk /\ file'.buf = <<>>
            /\ last'.op = "write_data_record" =>
                  /\ ~last'.ok
                  /\ header' = header
                  /\ session'.written = session.written]_vars

\* a write_data_record refused after one record and close()
C28_Witness ==
    /\ last.op = "write_data_record" /\ ~last.ok
    /\ file.st = "closed"
    /\ Len(session.written) = 1
    /\ header.number_of_data_records = 1

\* C30: when pack() fails in the constructor of EdfWriter, the constructor
\* raises and has changed nothing: the file is as it was, no handle is open
\* on it, and the caller's header has the duration_of_data_record, the
\* number_of_data_records and the samples per record it had before.
C30_FailedOpenNoEffect ==
    [][(last'.op = "open" /\ ~last'.ok) =>
          /\ header'.duration_of_data_record = header.duration_of_data_record
          /\ header'.number_of_data_records = header.number_of_data_records
          /\ \A i \in 1..Len(header.signals) :
                header'.signals[i].number_of_samples_in_data_record
                    = header.signals[i].number_of_samples_in_data_record
          /\ file'.st # "open"
          /\ file'.disk = file.disk]_vars

\* C29: EdfSignal(physical_min=pmin, physical_max=pmax, digital_min=dmin,
\* digital_max=dmax) with dmin < dmax, dmax - dmin <= 65535 and pmin < pmax
\* returns a descriptor with exactly these four bounds and with gain =
\* (pmax - pmin) / (dmax - dmin), whatever the values are.
C29_ConstructValid ==
    (/\ last.op = "EdfSignal"
     /\ last.bounds[3] < last.bounds[4]
     /\ last.bounds[4] - last.bounds[3] <= 65535
     /\ last.bounds[1] < last.bounds[2])
    =>
        LET s == header.signals[1]
        IN  /\ last.ok
            /\ <<s.physical_min, s.physical_max, s.digital_min, s.digital_max>>
                  = last.bounds
            /\ s.gain.dy * (last.bounds[4] - last.bounds[3])
                  = (last.bounds[2] - last.bounds[1]) * s.gain.dx

\* C23: in every state of a header, after construction, parsing and any
\* assignments to the fields of its subject and recording identities, sex is
\* 'M', 'F' or 'X' and code, name, experiment_id, investigator_id and
\* equipment_code are not empty and hold no space (a blank text is stored as
\* 'X', a space inside a text as an underscore); an assignment to sex of
\* another text raises and leaves the stored sex as it was.
C23_IdentityFields ==
    /\ [](LET IsIdWord(t) == t # <<>> /\ \A i \in 1..Len(t) : t[i] # SP
          IN  /\ header.subject_id.sex \in Sexes
              /\ IsIdWord(header.subject_id.code)
              /\ IsIdWord(header.subject_id.name)
              /\ IsIdWord(header.recording_id.experiment_id)
              /\ IsIdWord(header.recording_id.investigator_id)
              /\ IsIdWord(header.recording_id.equipment_code))
    /\ [][(last'.op = "sex" /\ Strip(last'.arg) \notin (Sexes \cup {<<>>})) =>
              (~last'.ok /\ header' = header)]_vars
    /\ [][(last'.op = "sex" /\ Strip(last'.arg) \in (Sexes \cup {<<>>})) =>
              /\ last'.ok
              /\ header'.subject_id.sex
                    = (IF Strip(last'.arg) = <<>> THEN <<LetterX>> ELSE Strip(last'.arg))]_vars
    /\ [][(last'.op \in {"code", "name"}) =>
              header'.subject_id[last'.op]
                  = (IF Strip(last'.arg) = <<>> THEN <<LetterX>>
                     ELSE Underscored(Strip(last'.arg)))]_vars

\* a name given as ' A B ' is stored as 'A_B', the sex 'F' is stored, and
\* the sex 'f' is then refused
C23_Witness ==
    /\ header.subject_id.name = <<65, UNDERSCORE, 66>>
    /\ header.subject_id.sex = <<70>>
    /\ last.op = "sex" /\ ~last.ok /\ last.arg = <<102>>

\* C24: two header objects do not share their signals: an assignment to
\* one header's signals, or an append to or a pop from the list its getter
\* returns, leaves the other header's signals, its number_of_signals and
\* what its pack() gives as they were, also when both headers were
\* constructed with the default signals argument.
C24_SignalsNotShared ==
    [][(last'.op \in {"signals", "append", "pop"}) =>
          /\ session'.other.signals = session.other.signals
          /\ session'.other.number_of_signals = session.other.number_of_signals
          /\ Pack(session'.other) = Pack(session.other)]_vars

====
